---- MODULE Spec2Model ----
(***************************************************************************)
(* Training loops of the two GAN programs of the repository:               *)
(*   GAN_piece1/code/main.py  2D synthetic data, pluggable loss family     *)
(*   GAN_piece2/code/main.py  image data, BCE loss, DataLoader batches     *)
(* Tensors are abstracted to what the loops decide on: their first         *)
(* dimension, the identity of the random draw they come from, and, for the *)
(* discriminator parameters and the scores fed to top-k, small integers.   *)
(***************************************************************************)
EXTENDS Integers, Sequences, FiniteSets

VARIABLES
    program,                \* which main.py runs: "piece1" or "piece2"
    pc,                     \* position of the script
    args,                   \* piece1: parsed command line; piece2: module-level hyperparameters
    loss_fn,                \* piece1: [generator, discriminator] loss objects
    fixed_generator_noise,  \* piece1: id of the draw made before training (0: not allocated)
    draws,                  \* number of latent tensors created so far (ids 1..draws)
    data,                   \* piece1: the real-data pool, a sequence of sample ids
    epoch,                  \* loop variable of the epoch loop
    index,                  \* piece1: window start; piece2: batch number i
    d_iter,                 \* piece1: iterations of the d_updates loop done in this window
    batch,                  \* piece1: batch (sample ids); piece2: imgs.size(0) as <<n>>
    noise,                  \* id of the latent tensor currently bound to noise / z
    fake_src,               \* id of the draw fake_samples / generated_imgs was computed from
    fake_scores,            \* piece1: discriminator(fake_samples) of the generator update
    prediction_fake,        \* piece1: what loss_generator was applied to
    loss_d,                 \* "unset", "finite" or "nonfinite"
    loss_g,                 \* "unset", "finite" or "nonfinite"
    generator,              \* [mode, params]
    discriminator,          \* [mode, params]
    opt_d,                  \* discriminator optimizer state: steps taken
    opt_g,                  \* generator optimizer state: steps taken
    hist                    \* history record (counters the claims are stated over)

vars == <<program, pc, args, loss_fn, fixed_generator_noise, draws, data, epoch, index,
          d_iter, batch, noise, fake_src, fake_scores, prediction_fake, loss_d, loss_g,
          generator, discriminator, opt_d, opt_g, hist>>

----------------------------------------------------------------------------
(* Bounds of the model *)
MaxEpochs == 3
MaxDUpdates == 2

\* values the remaining arguments take in the model
SampleCounts == {1, 2}
BatchSizes == {1, 2}
PlotFrequencies == {1, 2}
ClipValues == {0, 1}

\* values a tensor element takes in the model
ScoreVals == {0, 1}
ParamVals == {-2, 0, 2}
ParamIndex == {1, 2}
DiscriminatorParamSpace == [ParamIndex -> ParamVals]
LossVals == {"finite", "nonfinite"}

----------------------------------------------------------------------------
(* Helpers *)
Range(s) == {s[i] : i \in 1..Len(s)}

Perms(n) == {p \in [1..n -> 1..n] : \A i, j \in 1..n : p[i] = p[j] => i = j}

Min(a, b) == IF a < b THEN a ELSE b

Max(a, b) == IF a > b THEN a ELSE b

----------------------------------------------------------------------------
(* piece1: command line (main.py 8-39) *)
LossChoices == {"standard", "non-saturating", "hinge", "wasserstein", "wasserstein-gp",
                "least-squares"}

\* what the model passes as --loss: the default, the family weight clipping is
\* meant for, the family of the else branch, and an unrecognised name
LossArgs == {"standard", "wasserstein", "least-squares", "bogus"}

\* --loss declared without choices: every name is accepted.
ChoiceAcceptedAny(name) == TRUE

\* argparse accepts a value of --loss only if it is one of the choices
ChoiceAccepted(name) == name \in LossChoices

\* the if/elif/else chain that builds the loss pair; the else branch takes
\* every name the five tests do not match
SelectLoss(name) ==
    IF name = "standard" THEN [generator |-> "standard", discriminator |-> "standard"]
    ELSE IF name = "non-saturating"
        THEN [generator |-> "non-saturating", discriminator |-> "non-saturating"]
    ELSE IF name = "hinge" THEN [generator |-> "hinge", discriminator |-> "hinge"]
    ELSE IF name = "wasserstein"
        THEN [generator |-> "wasserstein", discriminator |-> "wasserstein"]
    ELSE IF name = "wasserstein-gp"
        THEN [generator |-> "wasserstein-gp", discriminator |-> "wasserstein-gp"]
    ELSE [generator |-> "least-squares", discriminator |-> "least-squares"]

NoLoss == [generator |-> "none", discriminator |-> "none"]

Piece1Args ==
    [epochs : 1..MaxEpochs, d_updates : 1..MaxDUpdates, plot_frequency : PlotFrequencies,
     samples : SampleCounts, batch_size : BatchSizes, loss : LossArgs,
     clip_weights : ClipValues, topk : BOOLEAN]

----------------------------------------------------------------------------
(* piece1: pieces of the training loop *)

\* data[index:index + batch_size], with Python's truncation at the end of data
Slice(d, idx, bs) == SubSeq(d, idx + 1, Min(idx + bs, Len(d)))

\* data[torch.randperm(data.shape[0])]: every reordering of the pool
Shuffled(d) == {[i \in 1..Len(d) |-> d[p[i]]] : p \in Perms(Len(d))}

\* A clamp with the upper bound only.
ClampUpperOnly(v, c) == Min(v, c)

\* param.clamp_(-c, c) on one element
Clamp(v, c) == Min(Max(v, 0 - c), c)

\* The clipping block left out.
ClipWeightsSkipped(params, c) == params

\* the clipping block after the discriminator step
ClipWeights(params, c) ==
    IF c > 0 THEN [i \in DOMAIN params |-> Clamp(params[i], c)] ELSE params

\* discriminator_optimizer.step(): a black box that may set every element of
\* the discriminator's parameters to any value
OptimizerStep(params) == [DOMAIN params -> ParamVals]

\* generator_optimizer.step(): the generator's parameters are not read by
\* value anywhere in the loop; they are identified by the number of the
\* step that produced them (0: as constructed)
GeneratorStep(steps) == <<steps + 1>>

\* The d_updates loop left after its first iteration.
DLoopNextOnce(a, done) == "g_update"

\* for _ in range(args.d_updates): where the script goes once `done`
\* iterations of the window are over
DLoopNext(a, done) == IF done < a.d_updates THEN "d_update" ELSE "g_update"

\* The threshold computed with integer division: args.epochs // 2.
UseTopKFloor(a, e) == a.topk /\ e >= a.epochs \div 2

\* args.topk and (epoch >= 0.5 * args.epochs)
UseTopK(a, e) == a.topk /\ 2 * e >= a.epochs

\* position of the first largest entry of a non-empty sequence
ArgMax(s) ==
    CHOOSE i \in 1..Len(s) :
        /\ \A j \in 1..Len(s) : s[j] <= s[i]
        /\ \A j \in 1..(i - 1) : s[j] < s[i]

RemoveAt(s, i) == SubSeq(s, 1, i - 1) \o SubSeq(s, i + 1, Len(s))

RECURSIVE TopK(_, _)
\* torch.topk(input, k)[0]: the k largest entries, in descending order
TopK(s, k) ==
    IF k = 0 THEN <<>>
    ELSE <<s[ArgMax(s)]>> \o TopK(RemoveAt(s, ArgMax(s)), k - 1)

\* The cadence tested on epoch instead of epoch + 1.
PlotDueOnEpoch(a, e) == e % a.plot_frequency = 0

\* ((epoch + 1) % args.plot_frequency) == 0
PlotDue(a, e) == (e + 1) % a.plot_frequency = 0

\* The epoch loop running one epoch too many.
AfterEpochOffByOne(a, e) == IF e + 1 <= a.epochs THEN "window_head" ELSE "done"

\* the epoch loop's test after epoch e has ended
AfterEpoch(a, e) == IF e + 1 < a.epochs THEN "window_head" ELSE "done"

HistInit ==
    [d_win |-> 0, g_win |-> 0, d_epoch |-> 0, g_epoch |-> 0, shuffles |-> 0,
     used_samples |-> {}, used_draws |-> {}, plots |-> 0, plot_noise |-> 0]

\* history at the start of the next epoch
HistNewEpoch(h) ==
    [h EXCEPT !.d_win = 0, !.g_win = 0, !.d_epoch = 0, !.g_epoch = 0, !.shuffles = 0,
              !.used_samples = {}]

----------------------------------------------------------------------------
(* piece1: the script, main.py 39-238 *)

\* args = parser.parse_args(): an unrecognised --loss ends the process (exit
\* status 2) here, before torch is imported
ParseArgs ==
    /\ program = "piece1"
    /\ pc = "parse_args"
    /\ pc' = IF ChoiceAccepted(args.loss) THEN "setup" ELSE "usage_error"
    /\ UNCHANGED <<program, args, loss_fn, fixed_generator_noise, draws, data, epoch, index,
                   d_iter, batch, noise, fake_src, fake_scores, prediction_fake, loss_d,
                   loss_g, generator, discriminator, opt_d, opt_g, hist>>

\* lines 75-116: fixed noise, data, networks, loss pair, train mode, optimizers
Setup ==
    /\ program = "piece1"
    /\ pc = "setup"
    /\ fixed_generator_noise' = draws + 1
    /\ draws' = draws + 1
    /\ data' = [i \in 1..args.samples |-> i]
    /\ \E p \in DiscriminatorParamSpace :
        discriminator' = [mode |-> "train", params |-> p]
    /\ generator' = [mode |-> "train", params |-> <<0>>]
    /\ loss_fn' = SelectLoss(args.loss)
    /\ epoch' = 0
    /\ index' = 0
    /\ pc' = IF 0 < args.epochs THEN "window_head" ELSE "done"
    /\ UNCHANGED <<program, args, d_iter, batch, noise, fake_src, fake_scores,
                   prediction_fake, loss_d, loss_g, opt_d, opt_g, hist>>

\* line 121-123: the window loop enters a window and shuffles the pool
WindowHead ==
    /\ program = "piece1"
    /\ pc = "window_head"
    /\ data' \in Shuffled(data)
    /\ d_iter' = 0
    /\ pc' = DLoopNext(args, 0)
    /\ hist' = [hist EXCEPT !.d_win = 0, !.g_win = 0, !.shuffles = @ + 1]
    /\ UNCHANGED <<program, args, loss_fn, fixed_generator_noise, draws, epoch, index, batch,
                   noise, fake_src, fake_scores, prediction_fake, loss_d, loss_g, generator,
                   discriminator, opt_d, opt_g>>

\* lines 125-149: one iteration of the d_updates loop
DiscriminatorUpdate ==
    /\ program = "piece1"
    /\ pc = "d_update"
    /\ batch' = Slice(data, index, args.batch_size)
    /\ noise' = draws + 1
    /\ draws' = draws + 1
    /\ fake_src' = noise'
    /\ loss_d' \in LossVals
    /\ \E stepped \in OptimizerStep(discriminator.params) :
        discriminator' = [discriminator EXCEPT
                              !.params = ClipWeights(stepped, args.clip_weights)]
    /\ opt_d' = opt_d + 1
    /\ d_iter' = d_iter + 1
    /\ pc' = DLoopNext(args, d_iter + 1)
    /\ hist' = [hist EXCEPT !.d_win = @ + 1, !.d_epoch = @ + 1,
                            !.used_draws = @ \cup {fake_src'}]
    /\ UNCHANGED <<program, args, loss_fn, fixed_generator_noise, data, epoch, index,
                   fake_scores, prediction_fake, loss_g, generator, opt_g>>

\* The generator update without line 152: it runs on the noise of the last
\* discriminator update.
GeneratorUpdateReusingNoise ==
    /\ program = "piece1"
    /\ pc = "g_update"
    /\ fake_src' = noise
    /\ fake_scores' \in [1..args.batch_size -> ScoreVals]
    /\ prediction_fake' = IF UseTopK(args, epoch)
                          THEN TopK(fake_scores', Len(fake_scores') \div 2)
                          ELSE fake_scores'
    /\ loss_g' \in LossVals
    /\ generator' = [generator EXCEPT !.params = GeneratorStep(opt_g)]
    /\ opt_g' = opt_g + 1
    /\ index' = index + args.batch_size
    /\ pc' = IF index' < args.samples THEN "window_head" ELSE "plot_check"
    /\ hist' = [hist EXCEPT !.g_win = @ + 1, !.g_epoch = @ + 1,
                            !.used_draws = @ \cup {fake_src'},
                            !.used_samples = @ \cup Range(batch)]
    /\ UNCHANGED <<program, args, loss_fn, fixed_generator_noise, draws, noise, data, epoch,
                   d_iter, batch, loss_d, discriminator, opt_d>>

\* lines 151-166: the generator update that ends the window
GeneratorUpdate ==
    /\ program = "piece1"
    /\ pc = "g_update"
    /\ noise' = draws + 1
    /\ draws' = draws + 1
    /\ fake_src' = noise'
    /\ fake_scores' \in [1..args.batch_size -> ScoreVals]
    /\ prediction_fake' = IF UseTopK(args, epoch)
                          THEN TopK(fake_scores', Len(fake_scores') \div 2)
                          ELSE fake_scores'
    /\ loss_g' \in LossVals
    /\ generator' = [generator EXCEPT !.params = GeneratorStep(opt_g)]
    /\ opt_g' = opt_g + 1
    /\ index' = index + args.batch_size
    /\ pc' = IF index' < args.samples THEN "window_head" ELSE "plot_check"
    /\ hist' = [hist EXCEPT !.g_win = @ + 1, !.g_epoch = @ + 1,
                            !.used_draws = @ \cup {fake_src'},
                            !.used_samples = @ \cup Range(batch)]
    /\ UNCHANGED <<program, args, loss_fn, fixed_generator_noise, data, epoch, d_iter, batch,
                   loss_d, discriminator, opt_d>>

\* line 168 false: the epoch ends without instrumentation
EpochEnd ==
    /\ program = "piece1"
    /\ pc = "plot_check"
    /\ ~PlotDue(args, epoch)
    /\ epoch' = epoch + 1
    /\ index' = 0
    /\ pc' = AfterEpoch(args, epoch)
    /\ hist' = HistNewEpoch(hist)
    /\ UNCHANGED <<program, args, loss_fn, fixed_generator_noise, draws, data, d_iter, batch,
                   noise, fake_src, fake_scores, prediction_fake, loss_d, loss_g, generator,
                   discriminator, opt_d, opt_g>>

\* lines 168-170: instrumentation starts: eval mode, samples from the fixed noise
PlotBegin ==
    /\ program = "piece1"
    /\ pc = "plot_check"
    /\ PlotDue(args, epoch)
    /\ generator' = [generator EXCEPT !.mode = "eval"]
    /\ hist' = [hist EXCEPT !.plots = @ + 1, !.plot_noise = fixed_generator_noise]
    /\ pc' = "plotting"
    /\ UNCHANGED <<program, args, loss_fn, fixed_generator_noise, draws, data, epoch, index,
                   d_iter, batch, noise, fake_src, fake_scores, prediction_fake, loss_d,
                   loss_g, discriminator, opt_d, opt_g>>

\* lines 171-238: plot, count, save, then back to train mode; the epoch ends
PlotEnd ==
    /\ program = "piece1"
    /\ pc = "plotting"
    /\ generator' = [generator EXCEPT !.mode = "train"]
    /\ epoch' = epoch + 1
    /\ index' = 0
    /\ pc' = AfterEpoch(args, epoch)
    /\ hist' = HistNewEpoch(hist)
    /\ UNCHANGED <<program, args, loss_fn, fixed_generator_noise, draws, data, d_iter, batch,
                   noise, fake_src, fake_scores, prediction_fake, loss_d, loss_g,
                   discriminator, opt_d, opt_g>>

----------------------------------------------------------------------------
(* piece2: the training loop, main.py 158-238 *)

\* batch_size, epochs and the size of the training set, scaled down
Piece2Args ==
    [epochs : 1..MaxEpochs, samples : SampleCounts \cup {3}, batch_size : BatchSizes]

\* lines 159-168: save_interval of an epoch
SaveInterval(e) ==
    IF e < 2 THEN 10
    ELSE IF e < 5 THEN 30
    ELSE IF e < 10 THEN 50
    ELSE IF e < 30 THEN 100
    ELSE 200

\* imgs.size(0) of batch i of a DataLoader without drop_last
LoaderBatchSize(a, i) == Min(a.batch_size, a.samples - i * a.batch_size)

\* line 170: the loader yields batch i
P2NextBatch ==
    /\ program = "piece2"
    /\ pc = "p2_batch_head"
    /\ index * args.batch_size < args.samples
    /\ batch' = <<LoaderBatchSize(args, index)>>
    /\ pc' = "p2_train_d"
    /\ UNCHANGED <<program, args, loss_fn, fixed_generator_noise, draws, data, epoch, index,
                   d_iter, noise, fake_src, fake_scores, prediction_fake, loss_d, loss_g,
                   generator, discriminator, opt_d, opt_g, hist>>

\* line 170 exhausted: the epoch ends
P2EpochEnd ==
    /\ program = "piece2"
    /\ pc = "p2_batch_head"
    /\ index * args.batch_size >= args.samples
    /\ epoch' = epoch + 1
    /\ index' = 0
    /\ pc' = IF epoch + 1 < args.epochs THEN "p2_batch_head" ELSE "done"
    /\ hist' = HistNewEpoch(hist)
    /\ UNCHANGED <<program, args, loss_fn, fixed_generator_noise, draws, data, d_iter, batch,
                   noise, fake_src, fake_scores, prediction_fake, loss_d, loss_g, generator,
                   discriminator, opt_d, opt_g>>

\* lines 171-184: z has batch_size rows, the labels imgs.size(0) rows; BCELoss
\* raises ValueError when the two differ
P2TrainDiscriminator ==
    /\ program = "piece2"
    /\ pc = "p2_train_d"
    /\ noise' = draws + 1
    /\ draws' = draws + 1
    /\ fake_src' = noise'
    /\ IF args.batch_size = batch[1]
       THEN /\ loss_d' = "finite"
            /\ \E stepped \in OptimizerStep(discriminator.params) :
                discriminator' = [discriminator EXCEPT !.params = stepped]
            /\ opt_d' = opt_d + 1
            /\ hist' = [hist EXCEPT !.d_win = 1, !.g_win = 0, !.d_epoch = @ + 1,
                                    !.used_draws = @ \cup {fake_src'}]
            /\ pc' = "p2_train_g"
       ELSE /\ pc' = "error"
            /\ UNCHANGED <<loss_d, discriminator, opt_d, hist>>
    /\ UNCHANGED <<program, args, loss_fn, fixed_generator_noise, data, epoch, index, d_iter,
                   batch, fake_scores, prediction_fake, loss_g, generator, opt_g>>

\* lines 187-196: the generator is trained on generated_imgs of the
\* discriminator update; then the test of the logging block
P2TrainGenerator ==
    /\ program = "piece2"
    /\ pc = "p2_train_g"
    /\ loss_g' = "finite"
    /\ generator' = [generator EXCEPT !.params = GeneratorStep(opt_g)]
    /\ opt_g' = opt_g + 1
    /\ hist' = [hist EXCEPT !.g_win = 1, !.g_epoch = @ + 1,
                            !.used_draws = @ \cup {fake_src}]
    /\ IF index % SaveInterval(epoch) = 0
       THEN pc' = "p2_log" /\ index' = index
       ELSE pc' = "p2_batch_head" /\ index' = index + 1
    /\ UNCHANGED <<program, args, loss_fn, fixed_generator_noise, draws, data, epoch, d_iter,
                   batch, noise, fake_src, fake_scores, prediction_fake, loss_d,
                   discriminator, opt_d>>

\* lines 197-238: metrics on 100 fresh latents, then an image grid from
\* input_activation; both under no_grad
P2Log ==
    /\ program = "piece2"
    /\ pc = "p2_log"
    /\ draws' = draws + 2
    /\ noise' = draws + 2
    /\ fake_src' = draws + 2
    /\ hist' = [hist EXCEPT !.plots = @ + 1]
    /\ index' = index + 1
    /\ pc' = "p2_batch_head"
    /\ UNCHANGED <<program, args, loss_fn, fixed_generator_noise, data, epoch, d_iter, batch,
                   fake_scores, prediction_fake, loss_d, loss_g, generator, discriminator,
                   opt_d, opt_g>>

----------------------------------------------------------------------------
\* piece1 starts at parse_args; piece2 at its training loop, with the
\* networks of lines 92-101 built and in the training mode of a new module
Init ==
    /\ \/ /\ program = "piece1"
          /\ pc = "parse_args"
          /\ args \in Piece1Args
          /\ generator = [mode |-> "none", params |-> <<>>]
          /\ discriminator = [mode |-> "none", params |-> <<>>]
       \/ /\ program = "piece2"
          /\ pc = "p2_batch_head"
          /\ args \in Piece2Args
          /\ generator = [mode |-> "train", params |-> <<0>>]
          /\ discriminator \in [mode : {"train"}, params : DiscriminatorParamSpace]
    /\ loss_fn = NoLoss
    /\ fixed_generator_noise = 0
    /\ draws = 0
    /\ data = <<>>
    /\ epoch = 0
    /\ index = 0
    /\ d_iter = 0
    /\ batch = <<>>
    /\ noise = 0
    /\ fake_src = 0
    /\ fake_scores = <<>>
    /\ prediction_fake = <<>>
    /\ loss_d = "unset"
    /\ loss_g = "unset"
    /\ opt_d = 0
    /\ opt_g = 0
    /\ hist = HistInit

Next ==
    \/ ParseArgs
    \/ Setup
    \/ WindowHead
    \/ DiscriminatorUpdate
    \/ GeneratorUpdate
    \/ EpochEnd
    \/ PlotBegin
    \/ PlotEnd
    \/ P2NextBatch
    \/ P2EpochEnd
    \/ P2TrainDiscriminator
    \/ P2TrainGenerator
    \/ P2Log

Spec == Init /\ [][Next]_vars

----------------------------------------------------------------------------
(* Properties *)

\* an optimizer step of either network is taken in this transition
DStep == opt_d' # opt_d
GStep == opt_g' # opt_g

InRange(params, c) == \A i \in DOMAIN params : 0 - c <= params[i] /\ params[i] <= c

\* the windows of an epoch when batch_size divides samples
Windows(a) == a.samples \div a.batch_size

\* sel holds entries of all at Len(sel) distinct positions, and no entry left
\* out is larger than an entry taken
IsTopOf(sel, all) ==
    \E f \in [1..Len(sel) -> 1..Len(all)] :
        /\ \A i, j \in 1..Len(sel) : f[i] = f[j] => i = j
        /\ \A i \in 1..Len(sel) : sel[i] = all[f[i]]
        /\ \A j \in 1..Len(all) :
            (\A i \in 1..Len(sel) : f[i] # j) => \A i \in 1..Len(sel) : all[j] <= sel[i]

\* C1: in piece1, with d_updates = k >= 1, every batch window takes exactly k
\* discriminator optimizer steps, all of them before its single generator
\* optimizer step: a discriminator step finds fewer than k discriminator steps
\* and no generator step taken in its window, the generator step finds exactly
\* k and no generator step, and a window that is over has counted k and 1.
C1_AlternatingProtocol ==
    /\ [](program = "piece1" =>
            /\ (pc = "d_update" => hist.d_win < args.d_updates /\ hist.g_win = 0)
            /\ (pc = "g_update" => hist.d_win = args.d_updates /\ hist.g_win = 0)
            /\ ((pc = "window_head" /\ index > 0) \/ pc \in {"plot_check", "plotting"}
                    => hist.d_win = args.d_updates /\ hist.g_win = 1))
    /\ [][program = "piece1" =>
            /\ (DStep => hist.d_win < args.d_updates /\ hist.g_win = 0 /\ ~GStep
                         /\ hist'.d_win = hist.d_win + 1)
            /\ (GStep => hist.d_win = args.d_updates /\ hist.g_win = 0 /\ ~DStep
                         /\ hist'.g_win = 1)]_vars

\* a window of two discriminator steps and one generator step, the second of its epoch
C1_Witness ==
    /\ program = "piece1"
    /\ pc = "plot_check"
    /\ args.d_updates = 2
    /\ hist.d_win = 2
    /\ hist.g_win = 1
    /\ hist.d_epoch = 4

C4_TopKGating ==
    (program = "piece1" /\ hist.g_epoch > 0) =>
        /\ Len(fake_scores) = args.batch_size
        /\ IF args.topk /\ 2 * epoch >= args.epochs
           THEN /\ Len(prediction_fake) = args.batch_size \div 2
                /\ IsTopOf(prediction_fake, fake_scores)
           ELSE prediction_fake = fake_scores

\* odd E = 3: the last epoch filters a batch of two down to its larger score
C4_Witness ==
    /\ program = "piece1"
    /\ args.topk
    /\ args.epochs = 3
    /\ epoch = 2
    /\ hist.g_epoch > 0
    /\ fake_scores = <<0, 1>>
    /\ prediction_fake = <<1>>

\* C5 as stated: in piece1 the pool is shuffled once per epoch, so the
\* batch of a window shares no sample with the windows before it in the same
\* epoch, and when batch_size divides samples the windows of an epoch use
\* every sample.
C5_ShuffleOncePerEpoch ==
    program = "piece1" =>
        /\ (pc = "g_update" => Range(batch) \cap hist.used_samples = {})
        /\ (pc = "plot_check" => hist.shuffles = 1)
        /\ (pc = "plot_check" /\ args.samples % args.batch_size = 0
                => hist.used_samples = 1..args.samples)

\* C6: in piece1, when batch_size divides samples, with W = samples /
\* batch_size, an epoch that has ended took exactly W * d_updates
\* discriminator steps and W generator steps, no epoch beyond the configured
\* number is started, and the run ends after exactly args.epochs epochs.
C6_StepCounts ==
    (program = "piece1" /\ pc \notin {"parse_args", "usage_error"}
     /\ args.samples % args.batch_size = 0) =>
        /\ epoch <= args.epochs
        /\ (pc \in {"plot_check", "plotting"} =>
                /\ hist.d_epoch = Windows(args) * args.d_updates
                /\ hist.g_epoch = Windows(args))
        /\ (pc = "done" =>
                /\ epoch = args.epochs
                /\ opt_d = args.epochs * Windows(args) * args.d_updates
                /\ opt_g = args.epochs * Windows(args))
        /\ (pc \notin {"setup", "done"} => epoch < args.epochs)

\* two windows per epoch, one discriminator step each: 2 and 2 in the epoch
C6_Witness ==
    /\ program = "piece1"
    /\ pc = "plot_check"
    /\ args.samples = 2
    /\ args.batch_size = 1
    /\ args.d_updates = 1
    /\ epoch = 1
    /\ hist.d_epoch = 2
    /\ hist.g_epoch = 2

\* C7: in piece1 a --loss name outside the six families ends the run at
\* parse_args: no tensor is ever created, no optimizer step is taken, and no
\* loss pair is ever built for it.
C7_UnknownLossRejected ==
    (program = "piece1" /\ args.loss \notin LossChoices) =>
        /\ pc \in {"parse_args", "usage_error"}
        /\ draws = 0
        /\ fixed_generator_noise = 0
        /\ data = <<>>
        /\ discriminator.params = <<>>
        /\ generator.params = <<>>
        /\ loss_fn = NoLoss
        /\ opt_d = 0
        /\ opt_g = 0

\* the run with --loss bogus after parse_args
C7_Witness ==
    /\ program = "piece1"
    /\ args.loss = "bogus"
    /\ pc = "usage_error"

\* C8 as stated: in piece1, once the discriminator loss or the generator
\* loss of a step is non-finite, no optimizer step is taken any more.
C8_NonFiniteLossAborts ==
    [][(program = "piece1" /\ (loss_d = "nonfinite" \/ loss_g = "nonfinite"))
            => (~DStep /\ ~GStep)]_vars

\* C9 as stated: in piece1 a configuration with clip_weights > 0 and a loss
\* family other than wasserstein never leaves the configuration phase: no
\* discriminator update and no clamp happens under it.
C9_ClipWithOtherFamilyRejected ==
    (program = "piece1" /\ args.clip_weights > 0 /\ args.loss # "wasserstein") =>
        /\ pc \in {"parse_args", "usage_error"}
        /\ opt_d = 0

\* C9 amended: parse_args accepts or rejects on the --loss name alone, so a
\* configuration with clip_weights > 0 and any of the six families is
\* accepted, and under it every discriminator update clamps the
\* discriminator parameters into [-c, c], whatever the family.
C9_ClipAppliedForEveryFamily ==
    [][program = "piece1" =>
            /\ (pc = "parse_args" => (pc' = "setup" <=> args.loss \in LossChoices))
            /\ ((DStep /\ args.clip_weights > 0)
                    => InRange(discriminator'.params, args.clip_weights))]_vars

\* least-squares with clip_weights = 1: updates taken, parameters clamped to the bounds
C9_Witness ==
    /\ program = "piece1"
    /\ args.loss = "least-squares"
    /\ loss_fn.discriminator = "least-squares"
    /\ args.clip_weights = 1
    /\ opt_d >= 1
    /\ discriminator.params[1] = -1
    /\ discriminator.params[2] = 1

\* C10: in piece1 instrumentation follows the batches of epoch e exactly
\* when (e + 1) mod plot_frequency = 0; the generator is in evaluation mode
\* exactly while instrumentation runs and in training mode at every
\* optimizer step; every invocation feeds the generator the latent tensor
\* drawn before training; and instrumentation changes no network parameter
\* and no optimizer state.
C10_Instrumentation ==
    /\ [](program = "piece1" =>
            /\ (pc = "plotting" => (epoch + 1) % args.plot_frequency = 0)
            /\ (generator.mode = "eval" <=> pc = "plotting")
            /\ (pc \notin {"parse_args", "usage_error", "setup", "plotting"}
                    => generator.mode = "train")
            /\ (pc = "plotting" =>
                    /\ hist.plot_noise = fixed_generator_noise
                    /\ fixed_generator_noise = 1
                    /\ fixed_generator_noise \notin hist.used_draws))
    /\ [][program = "piece1" =>
            /\ (pc = "plot_check" =>
                    (pc' = "plotting" <=> (epoch + 1) % args.plot_frequency = 0))
            /\ (pc = "plot_check" /\ pc' = "plotting" => hist'.plots = hist.plots + 1)
            /\ (hist'.plots # hist.plots => pc = "plot_check" /\ pc' = "plotting")
            /\ ((DStep \/ GStep) => generator.mode = "train" /\ generator'.mode = "train")
            /\ (pc # "setup" => fixed_generator_noise' = fixed_generator_noise)
            /\ (pc \in {"plot_check", "plotting"} =>
                    /\ generator'.params = generator.params
                    /\ discriminator' = discriminator
                    /\ opt_d' = opt_d
                    /\ opt_g' = opt_g)]_vars

\* the second invocation of a run, with the generator in evaluation mode
C10_Witness ==
    /\ program = "piece1"
    /\ pc = "plotting"
    /\ generator.mode = "eval"
    /\ hist.plots = 2
    /\ hist.plot_noise = 1
    /\ opt_g >= 2

\* C11 as stated: in piece2 every discriminator and generator update scores
\* as many generated samples (batch_size rows of z) as the label tensor has
\* entries (imgs.size(0)), the last batch of a training set that is no
\* multiple of batch_size included, so no update fails with a size mismatch.
C11_LabelSizeMatchesGenerated ==
    program = "piece2" =>
        /\ pc # "error"
        /\ (pc \in {"p2_train_g", "p2_log"} => args.batch_size = batch[1])

====
